---- MODULE Spec2Model ----
(***************************************************************************)
(* State-machine model of poe-fix-load-detection-v1-1.py: the polling loop *)
(* of monitor_process, its counter sampling, its two smoothing windows and *)
(* its affinity decisions.                                                 *)
(*                                                                         *)
(* Units.  I/O counters are counted in blocks of 1024*1024*CHECK_INTERVAL  *)
(* bytes, so that (read_diff + write_diff) / (1024*1024) / CHECK_INTERVAL  *)
(* is the plain difference of two counters.  Resident memory is counted in *)
(* MB.  Time is counted in whole seconds: the loop reads time.time() only  *)
(* to take differences with under_threshold_start, so the model keeps the  *)
(* difference itself, under_threshold_elapsed, and lets every iteration    *)
(* add the seconds it took.  Differences are kept up to ElapsedCap, beyond *)
(* which line 143 no longer tells them apart.  time.time() is never 0, so  *)
(* "not under_threshold_start" (line 141) is "under_threshold_start is     *)
(* None".                                                                  *)
(*                                                                         *)
(* outcome, thread_count_change, affinity_call, since_high and quiet       *)
(* record what the last iteration did; the loop does not read them.        *)
(* Python's None is the empty sequence and a present value v is <<v>>.     *)
(* An average is kept exact, as the pair of sum and length.                *)
(***************************************************************************)
EXTENDS Integers, Sequences, FiniteSets, TLC

(* ---------------- configuration parameters (lines 21-27) --------------- *)
DISK_USAGE_THRESHOLD_MB == 10
MEMORY_USAGE_THRESHOLD_MB == 400
THREAD_COUNT_THRESHOLD == 5
HYSTERESIS_THRESHOLD == 20
ACTIVITY_WINDOW == 5
\* time.sleep(5) of the waiting and the terminated paths, in seconds
IDLE_SLEEP == 5
\* The runs explored are those whose clock readings fall on steps of
\* IDLE_SLEEP seconds.  TICK_SECONDS is time.sleep(CHECK_INTERVAL) (line 157)
\* together with the running time of the iteration (process_iter and the
\* reads), taken up to the next step.
TICK_SECONDS == IDLE_SLEEP

(* ---------------------------- model bounds ----------------------------- *)
\* longest time, in steps of IDLE_SLEEP seconds, an iteration takes beyond
\* its sleeps
MaxOverhead == 2
\* logical cores of the machine, os.cpu_count()
LogicalCores == 4
\* largest os.cpu_count() for which get_cpu_masks is run
MaxCores == 28

None == <<>>
Some(v) == <<v>>

Min(a, b) == IF a < b THEN a ELSE b

(* ------------------------- what the process reports -------------------- *)
\* The runs explored are those of a few kinds of target process.  The first
\* three exercise one of the three signals of line 126 each and accept every
\* change of their affinity.  A "protected" process is one whose
\* cpu_affinity() may raise (access denied); a "boundary" process moves its
\* memory and its thread count together.
Workloads == {"disk", "memory", "threads", "protected"}

IOCounters(kind) ==
  IF kind = "disk"
    THEN { [read_bytes |-> 0, write_bytes |-> 0],
           [read_bytes |-> DISK_USAGE_THRESHOLD_MB, write_bytes |-> 0] }
    ELSE { [read_bytes |-> 0, write_bytes |-> 0] }

MemoryReadings(kind) ==
  IF kind \in {"memory", "boundary"}
    THEN {0, ACTIVITY_WINDOW * MEMORY_USAGE_THRESHOLD_MB}
    ELSE {0}

ThreadReadings(kind) ==
  IF kind \in {"threads", "boundary"}
    THEN {1, 1 + THREAD_COUNT_THRESHOLD, 2 + THREAD_COUNT_THRESHOLD}
    ELSE IF kind = "protected" THEN {1, 2 + THREAD_COUNT_THRESHOLD}
    ELSE {1}

\* whether process.cpu_affinity(core_indices) of line 58 raises
AffinityRaises(kind) == IF kind = "protected" THEN BOOLEAN ELSE {FALSE}

Overheads == {0, MaxOverhead * IDLE_SLEEP}

VARIABLES
  is_smt_disabled,          \* line 69
  under_threshold_elapsed,  \* None while under_threshold_start (line 70) is None,
                            \* else time.time() - under_threshold_start
  previous_io_counters,     \* line 71
  previous_memory_usage,    \* line 72
  previous_thread_count,    \* line 73
  disk_activity_history,    \* line 75
  memory_activity_history,  \* line 76
  workload,                 \* the kind of target process of this run
  outcome,                  \* the path the last iteration took
  thread_count_change,      \* line 118, of the last iteration (None if not computed)
  affinity_call,            \* mask given to set_cpu_affinity in the last iteration
  since_high,               \* seconds since the latest high-activity decision
                            \* taken while under_threshold_start was set (else None)
  quiet,                    \* every sample taken so far was 0, 0, 0
  cpu_affinity,             \* the cores the instance last found may run on
                            \* (None when there is no instance)
  cpu                       \* os.cpu_count(), the masks of line 45 and the
                            \* core_indices of line 57

vars == << is_smt_disabled, under_threshold_elapsed, previous_io_counters,
           previous_memory_usage, previous_thread_count, disk_activity_history,
           memory_activity_history, workload, outcome, thread_count_change,
           affinity_call, since_high, quiet, cpu_affinity, cpu >>

(* ------------------------- get_cpu_masks, lines 30-42 ------------------ *)
Bit(mask, i) == (mask \div (2 ^ i)) % 2

\* mask |= (1 << i)
SetBit(mask, i) == IF Bit(mask, i) = 1 THEN mask ELSE mask + 2 ^ i

RECURSIVE ActivateFrom(_, _, _)
\* for i in range(i, stop): mask |= (1 << i)
ActivateFrom(mask, i, stop) ==
  IF i >= stop THEN mask ELSE ActivateFrom(SetBit(mask, i), i + 1, stop)

\* get_cpu_masks activating cores 0 and 1 and half of the cores after them
get_cpu_masksHalfOfRest(logical_cores) ==
  LET threads_to_activate == 2 + (logical_cores - 2) \div 2
      mask == SetBit(SetBit(0, 0), 1)
  IN  << ActivateFrom(mask, 2, threads_to_activate), 2 ^ logical_cores - 1 >>

\* returns << mask, full mask >>
get_cpu_masks(logical_cores) ==
  LET threads_to_activate == logical_cores \div 2
      mask == SetBit(SetBit(0, 0), 1)
  IN  << ActivateFrom(mask, 2, threads_to_activate), 2 ^ logical_cores - 1 >>

physical_mask == get_cpu_masks(LogicalCores)[1]
full_mask == get_cpu_masks(LogicalCores)[2]

(* ------------------------ set_cpu_affinity, lines 55-61 ---------------- *)
\* line 57: [i for i in range(os.cpu_count()) if (1 << i) & mask]
core_indices(logical_cores, mask) ==
  {i \in 0 .. logical_cores - 1 : Bit(mask, i) = 1}

\* a new process instance may run on every core
DefaultAffinity == Some(0 .. LogicalCores - 1)

\* lines 56-61: the affinity of the process after the call; an exception of
\* cpu_affinity() is logged and not passed on
set_cpu_affinity(affinity, mask, raises) ==
  IF raises THEN affinity ELSE Some(core_indices(LogicalCores, mask))

(* ----------------------- smoothing windows ----------------------------- *)
RECURSIVE sum(_)
sum(data) == IF data = <<>> THEN 0 ELSE Head(data) + sum(Tail(data))

\* a bounded append that drops the newest held value instead of the oldest
appendDropNewest(history, x) ==
  IF Len(history) < ACTIVITY_WINDOW THEN Append(history, x)
  ELSE Append(SubSeq(history, 1, ACTIVITY_WINDOW - 1), x)

\* deque(maxlen=ACTIVITY_WINDOW).append
append(history, x) ==
  IF Len(history) < ACTIVITY_WINDOW THEN Append(history, x)
  ELSE Append(Tail(history), x)

\* sum(data) / len(data) if data else 0, as the exact fraction num / den
calculate_average(data) ==
  IF data = <<>> THEN [num |-> 0, den |-> 1]
  ELSE [num |-> sum(data), den |-> Len(data)]

\* avg >= threshold, avg > threshold
AtLeast(avg, threshold) == avg.num >= threshold * avg.den
Above(avg, threshold) == avg.num > threshold * avg.den

(* ------------------------ sampling, lines 91-119 ----------------------- *)
\* lines 91-93: the counters the first delta is taken against
io_baseline(first_read) ==
  IF previous_io_counters = None THEN first_read ELSE previous_io_counters[1]

\* lines 97-99
disk_usage_mb(io_counters, baseline) ==
  LET read_diff == io_counters.read_bytes - baseline.read_bytes
      write_diff == io_counters.write_bytes - baseline.write_bytes
  IN  read_diff + write_diff

\* lines 106-109
memory_usage_change(memory_usage_mb) ==
  memory_usage_mb -
    (IF previous_memory_usage = None THEN memory_usage_mb ELSE previous_memory_usage[1])

\* lines 115-118
thread_change(thread_count) ==
  thread_count -
    (IF previous_thread_count = None THEN thread_count ELSE previous_thread_count[1])

\* line 126 with the thread signal left out of the condition
HighActivityNoThreads(avg_disk_usage, avg_memory_change, threads_change) ==
  \/ AtLeast(avg_disk_usage, DISK_USAGE_THRESHOLD_MB)
  \/ Above(avg_memory_change, MEMORY_USAGE_THRESHOLD_MB)

\* line 126 with the disk boundary made exclusive
HighActivityDiskExclusive(avg_disk_usage, avg_memory_change, threads_change) ==
  \/ Above(avg_disk_usage, DISK_USAGE_THRESHOLD_MB)
  \/ Above(avg_memory_change, MEMORY_USAGE_THRESHOLD_MB)
  \/ threads_change > THREAD_COUNT_THRESHOLD

\* line 126 with the memory and the thread boundaries made inclusive
HighActivityInclusive(avg_disk_usage, avg_memory_change, threads_change) ==
  \/ AtLeast(avg_disk_usage, DISK_USAGE_THRESHOLD_MB)
  \/ AtLeast(avg_memory_change, MEMORY_USAGE_THRESHOLD_MB)
  \/ threads_change >= THREAD_COUNT_THRESHOLD

\* line 126
HighActivity(avg_disk_usage, avg_memory_change, threads_change) ==
  \/ AtLeast(avg_disk_usage, DISK_USAGE_THRESHOLD_MB)
  \/ Above(avg_memory_change, MEMORY_USAGE_THRESHOLD_MB)
  \/ threads_change > THREAD_COUNT_THRESHOLD

\* line 143 with > in place of >=
SustainedStrict(elapsed) == elapsed > HYSTERESIS_THRESHOLD

\* line 143, on the difference time.time() - under_threshold_start
Sustained(elapsed) == elapsed >= HYSTERESIS_THRESHOLD

(* ----------------------------- environment ----------------------------- *)
\* cumulative counters of one process instance never decrease
Monotone(a, b) == a.read_bytes <= b.read_bytes /\ a.write_bytes <= b.write_bytes

\* line 80: the loop runs until an exception leaves monitor_process
Looping == outcome # "crashed"

\* no instance is being followed: the next one found is a new instance
Untracked == outcome \in {"start", "not_found", "terminated"}

\* the sleeps that ended the last iteration (lines 87, 153, 157), in seconds
SleepAfter(path) ==
  CASE path = "start" -> 0
    [] path = "not_found" -> IDLE_SLEEP
    [] path = "terminated" -> IDLE_SLEEP + TICK_SECONDS
    [] OTHER -> TICK_SECONDS

ElapsedCap == HYSTERESIS_THRESHOLD

\* a time difference, seconds later
Later(elapsed, seconds) ==
  IF elapsed = None THEN None ELSE Some(Min(elapsed[1] + seconds, ElapsedCap))

\* since_high, seconds later; it is followed only while limited
SinceHighLater(seconds) ==
  IF is_smt_disabled THEN Later(since_high, seconds) ELSE None

\* a window that holds nothing but zero samples
AllZero(history) == \A i \in 1 .. Len(history) : history[i] = 0

\* the seconds between the last iteration's clock and this one's
Passed(overhead) == SleepAfter(outcome) + overhead

\* the reads of one iteration: the handle found refers to a restarted
\* instance or to the one followed so far
Reads(restarted, first_read, io_counters) ==
  /\ restarted \in (IF Untracked THEN {TRUE} ELSE BOOLEAN)
  /\ IF previous_io_counters = None
       THEN Monotone(first_read, io_counters)
       ELSE /\ first_read = io_counters
            /\ restarted \/ Monotone(previous_io_counters[1], io_counters)

(* ---------------- sampling up to a read that may fail ------------------ *)
\* The reads of lines 93, 96, 104 and 114 are stages 0 to 3; Sampled(n, ...)
\* is the sampler state when the reads before stage n have succeeded.
Sampled(n, first_read, io_counters, memory_usage_mb, thread_count) ==
  [ previous_io_counters |->
      IF n >= 2 THEN Some(io_counters)
      ELSE IF n = 1 THEN Some(io_baseline(first_read))
      ELSE previous_io_counters,
    disk_activity_history |->
      IF n >= 2
        THEN append(disk_activity_history,
                    disk_usage_mb(io_counters, io_baseline(first_read)))
        ELSE disk_activity_history,
    previous_memory_usage |->
      IF n >= 3 THEN Some(memory_usage_mb) ELSE previous_memory_usage,
    memory_activity_history |->
      IF n >= 3
        THEN append(memory_activity_history, memory_usage_change(memory_usage_mb))
        ELSE memory_activity_history,
    previous_thread_count |->
      IF n >= 4 THEN Some(thread_count) ELSE previous_thread_count ]

\* the affinity of the instance that get_target_process() returned
Found(restarted) == IF restarted THEN DefaultAffinity ELSE cpu_affinity

\* what line 45 leaves behind for a machine of logical_cores cores
Masks(logical_cores) ==
  [ logical_cores |-> logical_cores, at |-> "masks",
    physical_mask |-> get_cpu_masks(logical_cores)[1],
    full_mask |-> get_cpu_masks(logical_cores)[2],
    mask |-> 0, core_indices |-> {} ]

\* lines 69-76, for a target process of one of the given kinds
Locals(kinds) ==
  /\ is_smt_disabled = FALSE
  /\ under_threshold_elapsed = None
  /\ previous_io_counters = None
  /\ previous_memory_usage = None
  /\ previous_thread_count = None
  /\ disk_activity_history = <<>>
  /\ memory_activity_history = <<>>
  /\ workload \in kinds
  /\ outcome = "start"
  /\ thread_count_change = None
  /\ affinity_call = None
  /\ since_high = None
  /\ quiet = TRUE
  /\ cpu_affinity = None

Init == Locals(Workloads) /\ cpu = Masks(LogicalCores)

(* lines 81-88: get_target_process() returns None *)
ProcessNotFound ==
  \E overhead \in Overheads :
    /\ Looping
    /\ is_smt_disabled' = FALSE
    /\ under_threshold_elapsed' = Later(under_threshold_elapsed, Passed(overhead))
    /\ outcome' = "not_found"
    /\ thread_count_change' = None
    /\ affinity_call' = None
    /\ since_high' = None
    /\ cpu_affinity' = None
    /\ UNCHANGED << previous_io_counters, previous_memory_usage,
                    previous_thread_count, disk_activity_history,
                    memory_activity_history, workload, quiet, cpu >>

(* lines 126-146 without the test of line 127: the affinity is set on     *)
(* every high-activity iteration                                          *)
DecideEveryHighTick(avg_disk_usage, avg_memory_change, threads_change, elapsed, high) ==
  IF HighActivity(avg_disk_usage, avg_memory_change, threads_change)
    THEN /\ affinity_call' = Some(physical_mask)
         /\ is_smt_disabled' = TRUE
         /\ under_threshold_elapsed' = None
         /\ since_high' = None
    ELSE IF is_smt_disabled
      THEN IF elapsed = None
             THEN /\ under_threshold_elapsed' = Some(0)
                  /\ affinity_call' = None
                  /\ is_smt_disabled' = is_smt_disabled
                  /\ since_high' = None
             ELSE IF Sustained(elapsed[1])
               THEN /\ affinity_call' = Some(full_mask)
                    /\ is_smt_disabled' = FALSE
                    /\ under_threshold_elapsed' = elapsed
                    /\ since_high' = high
               ELSE /\ affinity_call' = None
                    /\ is_smt_disabled' = is_smt_disabled
                    /\ under_threshold_elapsed' = elapsed
                    /\ since_high' = high
      ELSE /\ affinity_call' = None
           /\ is_smt_disabled' = is_smt_disabled
           /\ under_threshold_elapsed' = elapsed
           /\ since_high' = None

(* lines 126-146 without the test of line 140: the low-activity branch    *)
(* runs in either mode                                                    *)
DecideUnguardedRestore(avg_disk_usage, avg_memory_change, threads_change, elapsed, high) ==
  IF HighActivity(avg_disk_usage, avg_memory_change, threads_change)
    THEN IF ~is_smt_disabled
           THEN /\ affinity_call' = Some(physical_mask)
                /\ is_smt_disabled' = TRUE
                /\ under_threshold_elapsed' = None
                /\ since_high' = None
           ELSE /\ affinity_call' = None
                /\ is_smt_disabled' = is_smt_disabled
                /\ under_threshold_elapsed' = elapsed
                /\ since_high' = IF elapsed = None THEN None ELSE Some(0)
    ELSE IF elapsed = None
      THEN /\ under_threshold_elapsed' = Some(0)
           /\ affinity_call' = None
           /\ is_smt_disabled' = is_smt_disabled
           /\ since_high' = None
      ELSE IF Sustained(elapsed[1])
        THEN /\ affinity_call' = Some(full_mask)
             /\ is_smt_disabled' = FALSE
             /\ under_threshold_elapsed' = elapsed
             /\ since_high' = high
        ELSE /\ affinity_call' = None
             /\ is_smt_disabled' = is_smt_disabled
             /\ under_threshold_elapsed' = elapsed
             /\ since_high' = high

(* lines 126-146 without the test of line 141: every low-activity         *)
(* iteration in LIMITED restarts the timer                                *)
DecideRestartTimer(avg_disk_usage, avg_memory_change, threads_change, elapsed, high) ==
  IF HighActivity(avg_disk_usage, avg_memory_change, threads_change)
    THEN IF ~is_smt_disabled
           THEN /\ affinity_call' = Some(physical_mask)
                /\ is_smt_disabled' = TRUE
                /\ under_threshold_elapsed' = None
                /\ since_high' = None
           ELSE /\ affinity_call' = None
                /\ is_smt_disabled' = is_smt_disabled
                /\ under_threshold_elapsed' = elapsed
                /\ since_high' = IF elapsed = None THEN None ELSE Some(0)
    ELSE IF is_smt_disabled
      THEN /\ under_threshold_elapsed' = Some(0)
           /\ affinity_call' = None
           /\ is_smt_disabled' = is_smt_disabled
           /\ since_high' = None
      ELSE /\ affinity_call' = None
           /\ is_smt_disabled' = is_smt_disabled
           /\ under_threshold_elapsed' = elapsed
           /\ since_high' = None

(* lines 126-146: the decision of an iteration whose reads all succeeded; *)
(* elapsed and high are the two time differences as of this iteration     *)
Decide(avg_disk_usage, avg_memory_change, threads_change, elapsed, high) ==
  IF HighActivity(avg_disk_usage, avg_memory_change, threads_change)
    THEN IF ~is_smt_disabled
           THEN /\ affinity_call' = Some(physical_mask)
                /\ is_smt_disabled' = TRUE
                /\ under_threshold_elapsed' = None
                /\ since_high' = None
           ELSE /\ affinity_call' = None
                /\ is_smt_disabled' = is_smt_disabled
                /\ under_threshold_elapsed' = elapsed
                /\ since_high' = IF elapsed = None THEN None ELSE Some(0)
    ELSE IF is_smt_disabled
      THEN IF elapsed = None
             THEN /\ under_threshold_elapsed' = Some(0)
                  /\ affinity_call' = None
                  /\ is_smt_disabled' = is_smt_disabled
                  /\ since_high' = None
             ELSE IF Sustained(elapsed[1])
               THEN /\ affinity_call' = Some(full_mask)
                    /\ is_smt_disabled' = FALSE
                    /\ under_threshold_elapsed' = elapsed
                    /\ since_high' = high
               ELSE /\ affinity_call' = None
                    /\ is_smt_disabled' = is_smt_disabled
                    /\ under_threshold_elapsed' = elapsed
                    /\ since_high' = high
      ELSE /\ affinity_call' = None
           /\ is_smt_disabled' = is_smt_disabled
           /\ under_threshold_elapsed' = elapsed
           /\ since_high' = None

(* lines 90-146 and 157: an iteration in which every read succeeds *)
Monitor ==
  \E overhead \in Overheads, restarted \in BOOLEAN,
     first_read \in IOCounters(workload), io_counters \in IOCounters(workload),
     memory_usage_mb \in MemoryReadings(workload),
     thread_count \in ThreadReadings(workload),
     raises \in AffinityRaises(workload) :
    LET after == Sampled(4, first_read, io_counters, memory_usage_mb, thread_count)
    IN  /\ Looping
        /\ Reads(restarted, first_read, io_counters)
        /\ previous_io_counters' = after.previous_io_counters
        /\ disk_activity_history' = after.disk_activity_history
        /\ previous_memory_usage' = after.previous_memory_usage
        /\ memory_activity_history' = after.memory_activity_history
        /\ previous_thread_count' = after.previous_thread_count
        /\ thread_count_change' = Some(thread_change(thread_count))
        /\ outcome' = "decided"
        /\ workload' = workload
        /\ quiet' = (quiet /\ AllZero(after.disk_activity_history)
                            /\ AllZero(after.memory_activity_history)
                            /\ thread_change(thread_count) = 0)
        /\ Decide(calculate_average(after.disk_activity_history),
                  calculate_average(after.memory_activity_history),
                  thread_change(thread_count),
                  Later(under_threshold_elapsed, Passed(overhead)),
                  SinceHighLater(Passed(overhead)))
        /\ cpu_affinity' =
             IF affinity_call' = None THEN Found(restarted)
             ELSE set_cpu_affinity(Found(restarted), affinity_call'[1], raises)
        /\ cpu' = cpu

(* lines 148-153: a read raises psutil.NoSuchProcess *)
ProcessTerminated ==
  \E overhead \in Overheads, restarted \in BOOLEAN, n \in 0 .. 3,
     first_read \in IOCounters(workload), io_counters \in IOCounters(workload),
     memory_usage_mb \in MemoryReadings(workload) :
    LET after == Sampled(n, first_read, io_counters, memory_usage_mb, 0)
    IN  /\ Looping
        /\ Reads(restarted, first_read, io_counters)
        /\ n = 0 => previous_io_counters = None
        /\ previous_io_counters' = None
        /\ previous_memory_usage' = None
        /\ previous_thread_count' = None
        /\ disk_activity_history' = after.disk_activity_history
        /\ memory_activity_history' = after.memory_activity_history
        /\ thread_count_change' = None
        /\ affinity_call' = None
        /\ outcome' = "terminated"
        /\ cpu_affinity' = None
        /\ under_threshold_elapsed' = Later(under_threshold_elapsed, Passed(overhead))
        /\ since_high' = SinceHighLater(Passed(overhead))
        /\ quiet' = (quiet /\ AllZero(after.disk_activity_history)
                            /\ AllZero(after.memory_activity_history))
        /\ UNCHANGED << is_smt_disabled, workload, cpu >>

(* a read raises any other exception and lines 154-155 are absent: the     *)
(* exception leaves monitor_process                                        *)
ReadErrorUncaught ==
  \E overhead \in Overheads, restarted \in BOOLEAN, n \in 0 .. 3,
     first_read \in IOCounters(workload), io_counters \in IOCounters(workload),
     memory_usage_mb \in MemoryReadings(workload) :
    LET after == Sampled(n, first_read, io_counters, memory_usage_mb, 0)
    IN  /\ Looping
        /\ Reads(restarted, first_read, io_counters)
        /\ n = 0 => previous_io_counters = None
        /\ previous_io_counters' = after.previous_io_counters
        /\ previous_memory_usage' = after.previous_memory_usage
        /\ previous_thread_count' = after.previous_thread_count
        /\ disk_activity_history' = after.disk_activity_history
        /\ memory_activity_history' = after.memory_activity_history
        /\ thread_count_change' = None
        /\ affinity_call' = None
        /\ outcome' = "crashed"
        /\ cpu_affinity' = Found(restarted)
        /\ under_threshold_elapsed' = Later(under_threshold_elapsed, Passed(overhead))
        /\ since_high' = SinceHighLater(Passed(overhead))
        /\ quiet' = (quiet /\ AllZero(after.disk_activity_history)
                            /\ AllZero(after.memory_activity_history))
        /\ UNCHANGED << is_smt_disabled, workload, cpu >>

(* lines 154-155: a read raises any other exception *)
ReadError ==
  \E overhead \in Overheads, restarted \in BOOLEAN, n \in 0 .. 3,
     first_read \in IOCounters(workload), io_counters \in IOCounters(workload),
     memory_usage_mb \in MemoryReadings(workload) :
    LET after == Sampled(n, first_read, io_counters, memory_usage_mb, 0)
    IN  /\ Looping
        /\ Reads(restarted, first_read, io_counters)
        /\ n = 0 => previous_io_counters = None
        /\ previous_io_counters' = after.previous_io_counters
        /\ previous_memory_usage' = after.previous_memory_usage
        /\ previous_thread_count' = after.previous_thread_count
        /\ disk_activity_history' = after.disk_activity_history
        /\ memory_activity_history' = after.memory_activity_history
        /\ thread_count_change' = None
        /\ affinity_call' = None
        /\ outcome' = "error"
        /\ cpu_affinity' = Found(restarted)
        /\ under_threshold_elapsed' = Later(under_threshold_elapsed, Passed(overhead))
        /\ since_high' = SinceHighLater(Passed(overhead))
        /\ quiet' = (quiet /\ AllZero(after.disk_activity_history)
                            /\ AllZero(after.memory_activity_history))
        /\ UNCHANGED << is_smt_disabled, workload, cpu >>

Next == ProcessNotFound \/ Monitor \/ ProcessTerminated \/ ReadError

Spec == Init /\ [][Next]_vars

(* the loop on a process that moves its memory and its threads together *)
BoundaryInit == Locals({"boundary"}) /\ cpu = Masks(LogicalCores)

SpecBoundary == BoundaryInit /\ [][Next]_vars

(* the loop under its scheduling: line 80 is `while True` and every sleep  *)
(* returns, so an iteration that can be taken is taken                    *)
FairInit == Locals({"threads"}) /\ cpu = Masks(LogicalCores)

FairSpec == FairInit /\ [][Next]_vars /\ WF_vars(Next)

(* ------------- the masks on machines of 1 to MaxCores cores ------------ *)
loop_vars == << is_smt_disabled, under_threshold_elapsed, previous_io_counters,
                previous_memory_usage, previous_thread_count,
                disk_activity_history, memory_activity_history, workload,
                outcome, thread_count_change, affinity_call, since_high, quiet,
                cpu_affinity >>

\* before line 45 has run, on a machine of 1 to MaxCores logical cores
MasksInit ==
  /\ Locals({"threads"})
  /\ cpu \in { [ logical_cores |-> n, at |-> "import", physical_mask |-> 0,
                  full_mask |-> 0, mask |-> 0, core_indices |-> {} ] :
                n \in 1 .. MaxCores }

(* line 45: physical_mask, full_mask = get_cpu_masks() *)
GetCpuMasks ==
  /\ cpu.at = "import"
  /\ cpu' = Masks(cpu.logical_cores)
  /\ UNCHANGED loop_vars

(* lines 55-58: set_cpu_affinity called with one of the two masks *)
SetCpuAffinity ==
  /\ cpu.at \in {"masks", "set"}
  /\ \E mask \in {cpu.physical_mask, cpu.full_mask} :
       cpu' = [cpu EXCEPT !.at = "set", !.mask = mask,
                          !.core_indices = core_indices(cpu.logical_cores, mask)]
  /\ UNCHANGED loop_vars

MasksNext == GetCpuMasks \/ SetCpuAffinity

SpecMasks == MasksInit /\ [][MasksNext]_vars

(* ======================= properties of the loop ======================== *)
Last(history) == history[Len(history)]

\* the last iteration took a decision and the condition of the transition
\* NORMAL -> LIMITED held of its smoothed disk and memory signals and its raw
\* thread signal
HighTick ==
  /\ outcome = "decided"
  /\ \/ sum(disk_activity_history) >=
          DISK_USAGE_THRESHOLD_MB * Len(disk_activity_history)
     \/ sum(memory_activity_history) >
          MEMORY_USAGE_THRESHOLD_MB * Len(memory_activity_history)
     \/ thread_count_change[1] > THREAD_COUNT_THRESHOLD

LowTick == outcome = "decided" /\ ~HighTick

(* C1: in NORMAL, an iteration whose signals satisfy the high-activity     *)
(* condition moves to LIMITED in that same iteration, calls the actuator   *)
(* with the limited mask and leaves low_activity_since unset.              *)
C1_EagerEntry ==
  [][ (~is_smt_disabled /\ HighTick') =>
        /\ is_smt_disabled'
        /\ affinity_call' = Some(physical_mask)
        /\ under_threshold_elapsed' = None ]_vars

C1_Witness ==
  /\ HighTick
  /\ is_smt_disabled
  /\ affinity_call = Some(physical_mask)
  /\ under_threshold_elapsed = None
  /\ thread_count_change = Some(0)

(* C2: whenever the engine goes LIMITED -> NORMAL by the hysteresis exit,  *)
(* no iteration of the preceding HYSTERESIS_THRESHOLD seconds was a        *)
(* high-activity one.                                                      *)
C2_ExitOnlyAfterSustainedLow ==
  (outcome = "decided" /\ affinity_call = Some(full_mask)) =>
    (since_high = None \/ since_high[1] >= HYSTERESIS_THRESHOLD)

(* C3: in LIMITED, a high-activity iteration leaves the engine in LIMITED  *)
(* and low_activity_since unset.                                           *)
C3_HighTickResetsTimer ==
  [][ (is_smt_disabled /\ HighTick') =>
        (is_smt_disabled' /\ under_threshold_elapsed' = None) ]_vars

(* C4: set_cpu_affinity is called only in an iteration that changes the    *)
(* mode: with the limited mask on NORMAL -> LIMITED, with the full mask on *)
(* LIMITED -> NORMAL, and never in an iteration that keeps the mode.       *)
C4_ActuatorOnlyOnModeChange ==
  [][ /\ affinity_call' = Some(physical_mask) =>
           (~is_smt_disabled /\ is_smt_disabled')
      /\ affinity_call' = Some(full_mask) =>
           (is_smt_disabled /\ ~is_smt_disabled')
      /\ affinity_call' \in {None, Some(physical_mask), Some(full_mask)} ]_vars

\* a high-activity iteration in LIMITED that did not call the actuator
C4_Witness ==
  /\ HighTick
  /\ is_smt_disabled
  /\ affinity_call = None

(* C5: in LIMITED with the timer running, a low-activity iteration keeps   *)
(* LIMITED while now - low_activity_since < HYSTERESIS_THRESHOLD, and goes *)
(* to NORMAL with one call of the actuator with the full mask once it is   *)
(* >= HYSTERESIS_THRESHOLD; low-activity iterations in NORMAL call nothing.*)
C5_HysteresisExit ==
  [][ /\ ( /\ is_smt_disabled
           /\ under_threshold_elapsed # None
           /\ LowTick' ) =>
           IF under_threshold_elapsed'[1] < HYSTERESIS_THRESHOLD
             THEN is_smt_disabled' /\ affinity_call' = None
             ELSE ~is_smt_disabled' /\ affinity_call' = Some(full_mask)
      /\ (~is_smt_disabled /\ LowTick') =>
           (~is_smt_disabled' /\ affinity_call' = None) ]_vars

C5_Witness ==
  /\ LowTick
  /\ ~is_smt_disabled
  /\ affinity_call = Some(full_mask)
  /\ under_threshold_elapsed = Some(HYSTERESIS_THRESHOLD)

(* C6 as claimed: in NORMAL, an iteration whose disk throughput sample is  *)
(* exactly DISK_USAGE_THRESHOLD_MB enters LIMITED, whatever the window     *)
(* held before.                                                            *)
C6_SampleAtThresholdEnters ==
  [][ ( /\ ~is_smt_disabled
        /\ outcome' = "decided"
        /\ Last(disk_activity_history') = DISK_USAGE_THRESHOLD_MB ) =>
        is_smt_disabled' ]_vars

(* C6 as amended: in NORMAL, an iteration after whose sample the average   *)
(* of the disk window is exactly DISK_USAGE_THRESHOLD_MB enters LIMITED in *)
(* that iteration (the boundary of the smoothed disk signal is inclusive). *)
C6_AverageAtThresholdEnters ==
  [][ ( /\ ~is_smt_disabled
        /\ outcome' = "decided"
        /\ sum(disk_activity_history') =
             DISK_USAGE_THRESHOLD_MB * Len(disk_activity_history') ) =>
        (is_smt_disabled' /\ affinity_call' = Some(physical_mask)) ]_vars

C6_Witness ==
  /\ outcome = "decided"
  /\ affinity_call = Some(physical_mask)
  /\ Last(disk_activity_history) = DISK_USAGE_THRESHOLD_MB
  /\ sum(disk_activity_history) =
       DISK_USAGE_THRESHOLD_MB * Len(disk_activity_history)

(* C7: as long as every sample taken since the start is disk 0, memory 0   *)
(* and threads 0, the engine is in NORMAL and the actuator is not called.  *)
C7_QuietStaysNormal ==
  quiet => (~is_smt_disabled /\ affinity_call = None)

\* quiet iterations that filled both windows and outlasted the hysteresis
C7_Witness ==
  /\ quiet
  /\ outcome = "decided"
  /\ Len(disk_activity_history) = ACTIVITY_WINDOW
  /\ Len(memory_activity_history) = ACTIVITY_WINDOW

(* C8: the first sampling iteration after a detection with no previous     *)
(* snapshot pushes disk throughput 0 and memory delta 0 and decides on     *)
(* thread delta 0, whatever counters the process reports.                  *)
C8_WarmUpSampleIsZero ==
  [][ (previous_io_counters = None /\ outcome' = "decided") =>
        /\ Last(disk_activity_history') = 0
        /\ Last(memory_activity_history') = 0
        /\ thread_count_change' = Some(0) ]_vars

(* C9: once the tracked process has vanished (the lookup finds nothing, or *)
(* a read raised NoSuchProcess in the iteration before), the iteration     *)
(* ends with the state NORMAL, the timer unset and both windows empty.     *)
C9_VanishResetsState ==
  [][ (outcome' = "not_found" \/ outcome = "terminated") =>
        /\ ~is_smt_disabled'
        /\ under_threshold_elapsed' = None
        /\ disk_activity_history' = <<>>
        /\ memory_activity_history' = <<>> ]_vars

(* C10: while no process instance is tracked, the sampler keeps no         *)
(* previous snapshot and both windows are empty, so nothing of an earlier  *)
(* instance reaches the first deltas of the next one.                      *)
C10_NoLeakAcrossInstances ==
  outcome \in {"not_found", "terminated"} =>
    /\ previous_io_counters = None
    /\ previous_memory_usage = None
    /\ previous_thread_count = None
    /\ disk_activity_history = <<>>
    /\ memory_activity_history = <<>>

(* C11: each window holds at most ACTIVITY_WINDOW values, a push keeps the *)
(* most recent ones and evicts the oldest first, and calculate_average is  *)
(* the arithmetic mean of the values held, or 0 for an empty window.       *)
Total(history) ==
  LET RECURSIVE upto(_)
      upto(k) == IF k = 0 THEN 0 ELSE upto(k - 1) + history[k]
  IN  upto(Len(history))

\* avg is the mean of history (avg * len = total), 0 when history is empty
IsMeanOf(avg, history) ==
  /\ avg.den > 0
  /\ IF history = <<>> THEN avg.num = 0
     ELSE avg.num * Len(history) = avg.den * Total(history)

\* after is before with at most one value pushed, the oldest value evicted
\* when before was full
PushedOnto(before, after) ==
  \/ after = before
  \/ /\ Len(after) = Min(Len(before) + 1, ACTIVITY_WINDOW)
     /\ \A k \in 1 .. Len(after) - 1 :
          after[k] = before[k + Len(before) + 1 - Len(after)]

C11_BoundedWindowMean ==
  /\ [](/\ Len(disk_activity_history) <= ACTIVITY_WINDOW
        /\ Len(memory_activity_history) <= ACTIVITY_WINDOW
        /\ IsMeanOf(calculate_average(disk_activity_history), disk_activity_history)
        /\ IsMeanOf(calculate_average(memory_activity_history),
                    memory_activity_history))
  /\ [][ /\ PushedOnto(disk_activity_history, disk_activity_history')
         /\ PushedOnto(memory_activity_history, memory_activity_history') ]_vars

\* a full window whose oldest and newest values differ, with a mean that
\* is not zero
C11_Witness ==
  /\ Len(disk_activity_history) = ACTIVITY_WINDOW
  /\ disk_activity_history[1] # Last(disk_activity_history)
  /\ calculate_average(disk_activity_history).num # 0

(* C12: an iteration in which a counter read fails (NoSuchProcess or any   *)
(* other exception) leaves both windows as they were before it and takes   *)
(* no decision.                                                            *)
C12_FailedReadKeepsWindows ==
  [][ outcome' \in {"terminated", "error"} =>
        /\ disk_activity_history' = disk_activity_history
        /\ memory_activity_history' = memory_activity_history
        /\ is_smt_disabled' = is_smt_disabled
        /\ affinity_call' = None ]_vars

(* C17: whenever the mode is NORMAL (is_smt_disabled is False) the low-     *)
(* activity timer under_threshold_start is unset.                          *)
C17_NormalHasNoTimer ==
  ~is_smt_disabled => under_threshold_elapsed = None

\* the last iteration called set_cpu_affinity and the process does not run
\* on the cores of the mask asked for
ActuatorFailed ==
  /\ affinity_call # None
  /\ cpu_affinity # Some(core_indices(LogicalCores, affinity_call[1]))

(* C13: an iteration whose call of set_cpu_affinity fails keeps the mode   *)
(* it had: a failed call with the limited mask leaves NORMAL, a failed     *)
(* call with the full mask leaves LIMITED.                                 *)
C13_FailedCallKeepsMode ==
  [][ ActuatorFailed' => is_smt_disabled' = is_smt_disabled ]_vars

(* C14: no iteration stops the loop: after an iteration in which the       *)
(* process was not found, a read raised NoSuchProcess or another           *)
(* exception, or set_cpu_affinity failed (as after any other), the loop is *)
(* running and its next iteration can be taken.                            *)
C14_LoopNeverStops ==
  outcome # "start" => (Looping /\ ENABLED Next)

\* an iteration whose actuator call failed, reached after a failed read
C14_Witness ==
  /\ ActuatorFailed
  /\ Len(disk_activity_history) > Len(memory_activity_history)
  /\ ENABLED Monitor

(* C18: in runs in which every call of set_cpu_affinity succeeds, whenever *)
(* the mode is LIMITED at the end of an iteration that found a process,    *)
(* the cores that instance may run on are those of the limited mask.       *)
C18_ModeMatchesAffinity ==
  (workload # "protected" /\ is_smt_disabled /\ cpu_affinity # None) =>
    cpu_affinity = Some(core_indices(LogicalCores, physical_mask))

(* C16: the memory and the thread boundaries are exclusive and the thread  *)
(* signal is not smoothed: in NORMAL, an iteration with the disk average   *)
(* below its threshold, the memory average at most                         *)
(* MEMORY_USAGE_THRESHOLD_MB and the thread change at most                 *)
(* THREAD_COUNT_THRESHOLD (both exactly at the threshold included) stays   *)
(* in NORMAL, and an iteration whose thread change is                      *)
(* THREAD_COUNT_THRESHOLD + 1 enters LIMITED whatever the averages are.    *)
C16_ExclusiveBoundaries ==
  [][ /\ ( /\ ~is_smt_disabled
           /\ outcome' = "decided"
           /\ sum(disk_activity_history') <
                DISK_USAGE_THRESHOLD_MB * Len(disk_activity_history')
           /\ sum(memory_activity_history') <=
                MEMORY_USAGE_THRESHOLD_MB * Len(memory_activity_history')
           /\ thread_count_change'[1] <= THREAD_COUNT_THRESHOLD ) =>
           (~is_smt_disabled' /\ affinity_call' = None)
      /\ ( /\ ~is_smt_disabled
           /\ outcome' = "decided"
           /\ thread_count_change' = Some(THREAD_COUNT_THRESHOLD + 1) ) =>
           (is_smt_disabled' /\ affinity_call' = Some(physical_mask)) ]_vars

\* NORMAL after an iteration with the memory average and the thread change
\* both exactly at their thresholds
C16_Witness ==
  /\ outcome = "decided"
  /\ ~is_smt_disabled
  /\ affinity_call = None
  /\ sum(disk_activity_history) <
       DISK_USAGE_THRESHOLD_MB * Len(disk_activity_history)
  /\ sum(memory_activity_history) =
       MEMORY_USAGE_THRESHOLD_MB * Len(memory_activity_history)
  /\ thread_count_change = Some(THREAD_COUNT_THRESHOLD)

\* the cores a mask names
Cores(mask) == {i \in 0 .. MaxCores + 1 : (mask \div 2 ^ i) % 2 = 1}

C19_SustainedLowRestores ==
  (<>[][LowTick']_vars) => <>[](~is_smt_disabled)

\* NORMAL reached by the hysteresis exit with no high-activity iteration
\* since the timer was started
C19_Witness ==
  /\ LowTick
  /\ ~is_smt_disabled
  /\ affinity_call = Some(full_mask)
  /\ since_high = None
  /\ workload = "threads"

====
